---- MODULE Spec2Model ----
(***************************************************************************)
(* A state-machine model of PyTopo3D's optimisation driver                 *)
(*   top3d                 src/pytopo3d/core/optimizer.py                  *)
(*   execute_optimization  src/pytopo3d/runners/experiment.py              *)
(*                                                                         *)
(* Numbers.  Real quantities (volfrac, rmin, tolx, change) are fixed-point *)
(* integers in units of 1/Scale, so the float 1.0 is the integer Scale.    *)
(* A density (a cell of x, xPhys, xnew) is recorded as 0 when the float is *)
(* exactly 0.0 and as 1 when it is some non-zero value: the filter only    *)
(* adds non-negative multiples of its inputs, so it maps this record       *)
(* exactly (a cell is non-zero iff a cell of its neighbourhood is).        *)
(*                                                                         *)
(* Arrays.  A 3-D array of shape (nely, nelx, nelz) is a function on the   *)
(* index triples <<i, j, k>>.  A boolean mask is its shape and the set of  *)
(* index tuples at which it is True.                                       *)
(***************************************************************************)
EXTENDS Integers, Sequences, FiniteSets, Bags, TLC

\* ------------------------------------------------------------------ bounds
Scale == 2          \* fixed-point resolution: 1.0 is Scale units
MaxDim == 2         \* largest nelx, nely, nelz and mask dimension tried
MaxLoop == 2        \* largest maxloop tried
MaxObstacles == 1   \* most True entries of an obstacle mask tried

VARIABLES
  \* ---- top3d
  pc,             \* position in top3d
  nelx, nely, nelz, volfrac, rmin, tolx, maxloop,   \* top3d's arguments
  obstacle_mask,  \* the obstacle_mask argument, then the local (line 85)
  nele, design_nele,
  ndof,           \* number of degrees of freedom (line 80)
  built,          \* the setup artefacts constructed so far (lines 94-119)
  arts,           \* the values of the artefacts that are built once
  K_template,     \* the sparse stiffness matrix: sparsity pattern and values
  U,              \* the displacement vector
  stiff_vals,     \* the element stiffnesses of the current iteration (line 152)
  x, xPhys,       \* design and physical density fields
  loop, change,
  bound,          \* the loop-body locals that have been assigned (c, ...)
  report,         \* the completion message logged (lines 231-236)
  exc,            \* the exception that ended the run, with its source line
  result,         \* what top3d returned
  \* ---- execute_optimization
  caller,         \* who called top3d
  epc,            \* position in execute_optimization
  create_animation, benchmark, logger,   \* execute_optimization's arguments
  benchmark_tracker,
  history,
  ret             \* what execute_optimization returned

top3dVars == <<pc, nelx, nely, nelz, volfrac, rmin, tolx, maxloop, obstacle_mask,
               nele, design_nele, ndof, built, arts, K_template, U, stiff_vals,
               x, xPhys, loop, change, bound, report, exc, result>>
execVars == <<caller, epc, create_animation, benchmark, logger,
              benchmark_tracker, history, ret>>
vars == <<top3dVars, execVars>>

\* ------------------------------------------------------------ Python values
None == [none |-> TRUE, shape |-> <<>>, true |-> {}]
NoExc == [type |-> "none", line |-> 0]
Raised(t, l) == [type |-> t, line |-> l]
NoField == <<>>

\* ---------------------------------------------------------- numpy semantics
\* The index tuples of an array of the given shape.
RECURSIVE Indices(_)
Indices(shape) ==
  IF shape = <<>> THEN {<<>>}
  ELSE {<<i>> \o t : i \in 1..Head(shape), t \in Indices(Tail(shape))}

GridShape == <<nely, nelx, nelz>>
Cells == Indices(GridShape)

\* np.zeros(shape, dtype=bool)
ZerosMask(shape) == [none |-> FALSE, shape |-> shape, true |-> {}]

\* np.count_nonzero(mask)
CountNonzero(mask) == Cardinality(mask.true)

\* a[mask] with a boolean mask is accepted when the mask has no more axes than
\* the array and agrees with it on each axis the mask has; otherwise numpy
\* raises IndexError.
BoolIndexOK(mask, shape) ==
  /\ Len(mask.shape) <= Len(shape)
  /\ \A d \in 1..Len(mask.shape) : mask.shape[d] = shape[d]

\* The cells a[mask] selects: those whose leading indices are a True entry.
Selected(mask, cells) ==
  {c \in cells : SubSeq(c, 1, Len(mask.shape)) \in mask.true}

\* a[mask] = 0.0
MaskAssignZero(a, mask) ==
  [c \in DOMAIN a |-> IF c \in Selected(mask, DOMAIN a) THEN 0 ELSE a[c]]

\* np.full(shape, v)
Full(cells, v) == [c \in cells |-> IF v = 0 THEN 0 ELSE 1]

\* ------------------------------------------------------------------ filter
Abs(n) == IF n < 0 THEN -n ELSE n

\* ceil(r) for r given in units of 1/Scale
Ceil(r) == (r + Scale - 1) \div Scale

\* squared Euclidean distance between two cells, in cells
Dist2(c, e) ==
  (c[1] - e[1]) * (c[1] - e[1]) + (c[2] - e[2]) * (c[2] - e[2])
    + (c[3] - e[3]) * (c[3] - e[3])

\* build_filter: H[c, e] = max(0, rmin - dist(c, e)) > 0 exactly for the cells
\* e inside the bounding box of radius ceil(rmin) - 1 around c with
\* dist(c, e) < rmin; Hs[c] is the row sum, positive because c is in its own
\* neighbourhood.
Neighbours(c, cells, r) ==
  {e \in cells :
     /\ \A d \in 1..3 : Abs(e[d] - c[d]) <= Ceil(r) - 1
     /\ Scale * Scale * Dist2(c, e) < r * r}

\* (H * v.ravel(order="F") / Hs).reshape((nely, nelx, nelz), order="F")
Filter(v, r) ==
  [c \in DOMAIN v |->
     IF \E e \in Neighbours(c, DOMAIN v, r) : v[e] # 0 THEN 1 ELSE 0]

\* ------------------------------------------------------------------- top3d
\* the artefacts built once by lines 94-119
SetupArtefacts ==
  {"F", "freedofs0", "fixeddof0", "U", "KE", "edofMat", "iK", "jK",
   "unique_pairs", "assembly_map", "nUnique", "K_template", "H", "Hs"}

\* the exception of a raising step reaches top3d's caller
Propagate == epc' = IF caller = "execute_optimization" THEN "raised" ELSE epc

ExecFrame == UNCHANGED <<caller, create_animation, benchmark, logger,
                         benchmark_tracker>>
ArgFrame == UNCHANGED <<nelx, nely, nelz, volfrac, rmin, tolx, maxloop>>

\* The value a builder returns is recorded as the call that made it: the
\* builders are deterministic functions of their arguments.
Built(by, args) == [by |-> by, args |-> args]

Unbound == <<>>

\* lines 94-119: every artefact that is built once and then only read
BuildArtefacts ==
  [F |-> Built("build_force_vector", <<nelx, nely, nelz, ndof>>),
   freedofs0 |-> Built("build_supports.free", <<nelx, nely, nelz, ndof>>),
   fixeddof0 |-> Built("build_supports.fixed", <<nelx, nely, nelz, ndof>>),
   KE |-> Built("lk_H8", <<>>),
   edofMat |-> Built("build_edof.edofMat", <<nelx, nely, nelz>>),
   unique_pairs |-> Built("np.unique.values", <<nelx, nely, nelz>>),
   assembly_map |-> Built("np.unique.inverse", <<nelx, nely, nelz>>),
   nUnique |-> Built("unique_pairs.shape[0]", <<nelx, nely, nelz>>),
   H |-> Built("build_filter.H", <<nelx, nely, nelz, rmin>>),
   Hs |-> Built("build_filter.Hs", <<nelx, nely, nelz, rmin>>)]

\* lines 111-114: the template holds a zero at each of the unique pairs
NewTemplate(pairs) ==
  [pattern |-> pairs, data |-> [kind |-> "zeros", of |-> Unbound]]

\* line 96: U = np.zeros(ndof)
ZeroU == [kind |-> "zeros", of |-> Unbound]

\* line 152: stiff_vals = Emin + xFlat ** penal * (E0 - Emin)
Simp(phys) == [kind |-> "simp", of |-> phys]

\* lines 151-157: the values bincount accumulates are a function of xPhys
KData(phys) == [kind |-> "assembled", of |-> phys]

\* line 158: K_template.data[:] = K_data writes the values in place
StoreKDataRebuilt(template, data) ==
  [pattern |-> Built("nonzeros", <<>>), data |-> data]
StoreKData(template, data) == [template EXCEPT !.data = data]

\* lines 161-165: U is zeroed and the solution of the reduced system, a
\* function of the matrix values, is written at the free DOFs
SolveU(template) == [kind |-> "solved", of |-> template.data.of]

SetupFrame == UNCHANGED <<ndof, arts, K_template, U, stiff_vals>>

\* lines 71-89: nele, the default mask, design_nele and the debug message,
\* whose f-string divides design_nele by nele
Start ==
  /\ pc = "start"
  /\ nele' = nelx * nely * nelz
  /\ ndof' = 3 * (nelx + 1) * (nely + 1) * (nelz + 1)
  /\ UNCHANGED <<arts, K_template, U, stiff_vals>>
  /\ obstacle_mask' =
       IF obstacle_mask.none THEN ZerosMask(GridShape) ELSE obstacle_mask
  /\ design_nele' = nele' - CountNonzero(obstacle_mask')
  /\ IF nele' = 0
       THEN /\ pc' = "raised"
            /\ exc' = Raised("ZeroDivisionError", 89)
            /\ Propagate
       ELSE /\ pc' = "setup"
            /\ UNCHANGED <<exc, epc>>
  /\ ArgFrame /\ ExecFrame
  /\ UNCHANGED <<built, x, xPhys, loop, change, bound, report, result,
                 history, ret>>

\* lines 91-119: force vector, supports, U, KE, edofMat, assembly map, filter
Setup ==
  /\ pc = "setup"
  /\ built' = SetupArtefacts
  /\ arts' = BuildArtefacts
  /\ K_template' = NewTemplate(BuildArtefacts.unique_pairs)
  /\ U' = ZeroU
  /\ UNCHANGED <<ndof, stiff_vals>>
  /\ pc' = "init"
  /\ ArgFrame /\ ExecFrame
  /\ UNCHANGED <<obstacle_mask, nele, design_nele, x, xPhys, loop, change,
                 bound, report, exc, result, epc, history, ret>>

\* lines 121-142: x = full(volfrac); x[obstacle_mask] = 0; xPhys = filter(x);
\* loop = 0; change = 1.0
InitDesign ==
  /\ pc = "init"
  /\ IF BoolIndexOK(obstacle_mask, GridShape)
       THEN /\ x' = MaskAssignZero(Full(Cells, volfrac), obstacle_mask)
            /\ xPhys' = Filter(x', rmin)
            /\ loop' = 0
            /\ change' = Scale
            /\ pc' = "test"
            /\ UNCHANGED <<exc, epc>>
       ELSE /\ x' = Full(Cells, volfrac)
            /\ pc' = "raised"
            /\ exc' = Raised("IndexError", 127)
            /\ Propagate
            /\ UNCHANGED <<xPhys, loop, change>>
  /\ ArgFrame /\ ExecFrame /\ SetupFrame
  /\ UNCHANGED <<obstacle_mask, nele, design_nele, built, bound, report,
                 result, history, ret>>

\* line 146: while change > tolx and loop < maxloop
LoopGuardOffByOne(ch, tol, lp, mx) == ch > tol /\ lp <= mx
LoopGuard(ch, tol, lp, mx) == ch > tol /\ lp < mx

LoopTest ==
  /\ pc = "test"
  /\ pc' = IF LoopGuard(change, tolx, loop, maxloop) THEN "body" ELSE "report"
  /\ ArgFrame /\ ExecFrame /\ SetupFrame
  /\ UNCHANGED <<obstacle_mask, nele, design_nele, built, x, xPhys, loop,
                 change, bound, report, exc, result, epc, history, ret>>

\* lines 147-185: loop += 1; assemble from xPhys, solve, compliance c and the
\* filtered sensitivities dc, dv, zeroed in the obstacle
AssembleSolve ==
  /\ pc = "body"
  /\ loop' = loop + 1
  /\ stiff_vals' = Simp(xPhys)
  /\ K_template' = StoreKData(K_template, KData(xPhys))
  /\ U' = SolveU(K_template')
  /\ UNCHANGED <<ndof, arts>>
  /\ bound' = bound \cup {"c", "c_delta", "dc", "dv"}
  /\ pc' = "oc"
  /\ ArgFrame /\ ExecFrame
  /\ UNCHANGED <<obstacle_mask, nele, design_nele, built, x, xPhys, change,
                 report, exc, result, epc, history, ret>>

\* The values optimality_criteria_update may return: xnew is any of a few
\* patterns (all cells non-zero, all zero, one cell non-zero), change any
\* value from 0.0 to 1.0.
XnewChoices(cells) ==
  {[c \in cells |-> 1], [c \in cells |-> 0]}
    \cup {[c \in cells |-> IF c = k THEN 1 ELSE 0] : k \in cells}

ChangeValues == 0..Scale

\* lines 195-197: xPhys = filter(xnew); xPhys[obstacle_mask] = 0.0
RecomputePhysUnmasked(xnew, mask, r) == Filter(xnew, r)
RecomputePhys(xnew, mask, r) == MaskAssignZero(Filter(xnew, r), mask)

\* lines 187-225: OC update, xnew[obstacle_mask] = 0, xPhys, x = xnew,
\* current_volume_fraction and the progress report
OCUpdate ==
  /\ pc = "oc"
  /\ \E xnew \in XnewChoices(Cells), ch \in ChangeValues :
       /\ x' = MaskAssignZero(xnew, obstacle_mask)
       /\ xPhys' = RecomputePhys(x', obstacle_mask, rmin)
       /\ change' = ch
  /\ bound' = bound \cup {"xnew", "current_volume_fraction"}
  /\ pc' = "test"
  /\ ArgFrame /\ ExecFrame /\ SetupFrame
  /\ UNCHANGED <<obstacle_mask, nele, design_nele, built, loop, report, exc,
                 result, epc, history, ret>>

\* lines 231-236: the completion message
CompletionPath(lp, mx) == IF lp >= mx THEN "warning" ELSE "info"

Report ==
  /\ pc = "report"
  /\ report' = CompletionPath(loop, maxloop)
  /\ pc' = "final"
  /\ ArgFrame /\ ExecFrame /\ SetupFrame
  /\ UNCHANGED <<obstacle_mask, nele, design_nele, built, x, xPhys, loop,
                 change, bound, exc, result, epc, history, ret>>

\* ---------------------------------------------------- execute_optimization
\* top3d's parameters (optimizer.py lines 27-38) and the keywords of the call
\* in execute_optimization (experiment.py lines 164-178: seven positional
\* arguments, then six keywords).  top3d takes no **kwargs, so Python raises
\* TypeError for a keyword that is not one of its parameters.
Top3dParameters ==
  {"nelx", "nely", "nelz", "volfrac", "penal", "rmin", "disp_thres",
   "obstacle_mask", "tolx", "maxloop"}

CallKeywords ==
  {"obstacle_mask", "tolx", "maxloop", "save_history", "history_frequency",
   "benchmark_tracker"}

CallAccepted(keywords, parameters) == keywords \subseteq parameters

\* lines 180-229 of execute_optimization, given the value top3d returned (an
\* array whose first axis has nely entries): unpacking it into two names needs
\* exactly two entries; history['density_history'] indexes an array by a string.
AfterCall(value) ==
  IF create_animation
    THEN IF Len(GridShape) > 0 /\ nely = 2
           THEN [epc |-> "raised", exc |-> Raised("IndexError", 186),
                 history |-> "array", ret |-> "none"]
           ELSE [epc |-> "raised", exc |-> Raised("ValueError", 183),
                 history |-> "None", ret |-> "none"]
    ELSE [epc |-> "returned", exc |-> NoExc, history |-> "None",
          ret |-> [xPhys |-> value, history |-> "None",
                   benchmark_results |->
                     IF benchmark_tracker = "None" THEN "None" ELSE "summary"]]

\* lines 238-243: the final messages format c and current_volume_fraction,
\* which only the loop body assigns; then return xPhys
Finish ==
  /\ pc = "final"
  /\ IF {"c", "current_volume_fraction"} \subseteq bound
       THEN /\ pc' = "returned"
            /\ result' = xPhys
            /\ IF caller = "execute_optimization"
                 THEN /\ epc' = AfterCall(xPhys).epc
                      /\ exc' = AfterCall(xPhys).exc
                      /\ history' = AfterCall(xPhys).history
                      /\ ret' = AfterCall(xPhys).ret
                 ELSE UNCHANGED <<epc, exc, history, ret>>
       ELSE /\ pc' = "raised"
            /\ exc' = Raised("UnboundLocalError", 238)
            /\ Propagate
            /\ UNCHANGED <<result, history, ret>>
  /\ ArgFrame /\ ExecFrame /\ SetupFrame
  /\ UNCHANGED <<obstacle_mask, nele, design_nele, built, x, xPhys, loop,
                 change, bound, report>>

\* lines 139-149: the benchmark tracker; the benchmarking module may or may not
\* be importable, and every logger call here is guarded by "if logger"
ExecBenchmarkInit ==
  /\ epc = "start"
  /\ IF benchmark
       THEN \E importable \in BOOLEAN :
              benchmark_tracker' =
                IF importable THEN "BenchmarkTracker" ELSE "None"
       ELSE benchmark_tracker' = "None"
  /\ epc' = "log"
  /\ UNCHANGED <<top3dVars, caller, create_animation, benchmark, logger,
                 history, ret>>

\* lines 151-161: the guarded info message, start_time, then logger.debug(...)
\* with no guard
ExecLogStart ==
  /\ epc = "log"
  /\ IF logger = "None"
       THEN /\ epc' = "raised"
            /\ exc' = Raised("AttributeError", 158)
       ELSE /\ epc' = "call"
            /\ UNCHANGED exc
  /\ UNCHANGED <<pc, nelx, nely, nelz, volfrac, rmin, tolx, maxloop,
                 obstacle_mask, nele, design_nele, built, x, xPhys, loop,
                 change, bound, report, result, ndof, arts, K_template, U,
                 stiff_vals>>
  /\ UNCHANGED <<caller, create_animation, benchmark, logger,
                 benchmark_tracker, history, ret>>

\* lines 163-178: the call of top3d
ExecCallTop3d ==
  /\ epc = "call"
  /\ IF CallAccepted(CallKeywords, Top3dParameters)
       THEN /\ epc' = "in_top3d"
            /\ pc' = "start"
            /\ UNCHANGED exc
       ELSE /\ epc' = "raised"
            /\ exc' = Raised("TypeError", 164)
            /\ UNCHANGED pc
  /\ UNCHANGED <<nelx, nely, nelz, volfrac, rmin, tolx, maxloop,
                 obstacle_mask, nele, design_nele, built, x, xPhys, loop,
                 change, bound, report, result, ndof, arts, K_template, U,
                 stiff_vals>>
  /\ UNCHANGED <<caller, create_animation, benchmark, logger,
                 benchmark_tracker, history, ret>>

\* ------------------------------------------------------------------ inputs
\* the subsets of S with at most k elements
RECURSIVE UpTo(_, _)
UpTo(S, k) ==
  IF k = 0 THEN {{}}
  ELSE UpTo(S, k - 1) \cup {t \cup {e} : t \in UpTo(S, k - 1), e \in S}

\* a boolean array of shape s with at most k True entries
MasksOf(s, k) ==
  {[none |-> FALSE, shape |-> s, true |-> t] : t \in UpTo(Indices(s), k)}

MaskShapes == UNION {[1..n -> 1..MaxDim] : n \in 1..3}

Args(nx, ny, nz, vf, r, tol, mx, mask) ==
  [nelx |-> nx, nely |-> ny, nelz |-> nz, volfrac |-> vf, rmin |-> r,
   tolx |-> tol, maxloop |-> mx, obstacle_mask |-> mask]

TolxValues == (0 - 1)..(Scale + 1)     \* -1/Scale .. 1.0 + 1/Scale
VolfracValues == 0..Scale              \* 0.0 .. 1.0
RminValues == {Scale, Scale + 1}       \* 1.0 (no mixing), 1.0 + 1/Scale

\* every tolerance and iteration cap, on a row of two cells with no mask or a
\* mask of the grid's shape
LoopInputs ==
  {Args(2, 1, 1, 1, Scale + 1, tol, mx, m) :
     tol \in TolxValues, mx \in 0..MaxLoop,
     m \in {None} \cup MasksOf(<<1, 2, 1>>, MaxObstacles)}

\* every grid (a dimension of 0 included) and volume fraction
ConfigInputs ==
  {Args(nx, ny, nz, vf, Scale + 1, 1, 1, None) :
     nx \in 0..MaxDim, ny \in 0..MaxDim, nz \in 0..MaxDim,
     vf \in VolfracValues}

\* a mask of every shape with one True entry, on every grid, for one iteration
MaskInputs ==
  {Args(nx, ny, nz, 1, r, 1, 1, m) :
     nx \in 1..MaxDim, ny \in 1..MaxDim, nz \in 1..MaxDim,
     r \in RminValues, m \in UNION {MasksOf(s, 1) : s \in MaskShapes}}

Top3dInputs == LoopInputs \cup ConfigInputs \cup MaskInputs

\* a call of top3d, or of execute_optimization, with arguments from the given set
InitWith(inputs) ==
  /\ \E a \in inputs :
       /\ nelx = a.nelx /\ nely = a.nely /\ nelz = a.nelz
       /\ volfrac = a.volfrac /\ rmin = a.rmin
       /\ tolx = a.tolx /\ maxloop = a.maxloop
       /\ obstacle_mask = a.obstacle_mask
       /\ \/ /\ caller = "top3d"
             /\ pc = "start"
             /\ epc = "none"
             /\ create_animation = FALSE
             /\ benchmark = FALSE
             /\ logger = "None"
          \/ /\ a \in LoopInputs
             /\ caller = "execute_optimization"
             /\ pc = "not_called"
             /\ epc = "start"
             /\ create_animation \in BOOLEAN
             /\ benchmark \in BOOLEAN
             /\ logger \in {"Logger", "None"}
  /\ nele = 0 /\ design_nele = 0 /\ ndof = 0
  /\ arts = Unbound /\ K_template = Unbound /\ U = Unbound
  /\ stiff_vals = Unbound
  /\ built = {}
  /\ x = NoField /\ xPhys = NoField
  /\ loop = 0 /\ change = Scale
  /\ bound = {}
  /\ report = "none"
  /\ exc = NoExc
  /\ result = NoField
  /\ benchmark_tracker = "None"
  /\ history = "None"
  /\ ret = "none"

Next ==
  \/ Start
  \/ Setup
  \/ InitDesign
  \/ LoopTest
  \/ AssembleSolve
  \/ OCUpdate
  \/ Report
  \/ Finish
  \/ ExecBenchmarkInit
  \/ ExecLogStart
  \/ ExecCallTop3d

Init == InitWith(Top3dInputs)

Spec == Init /\ [][Next]_vars

\* The runs over LoopInputs alone.  top3d and execute_optimization are
\* sequential code: a step that can be taken is taken.
LoopInit == InitWith(LoopInputs)

LoopSpec == LoopInit /\ [][Next]_vars /\ WF_vars(Next)

\* ------------------------------------------------- assembly map, in detail
\* The sparse assembly (lines 106-114 and 150-158) with every index written
\* out.  Stiffness values are integers, so sums are exact.

DofsPerElement == 24    \* KE is 24 x 24: 8 nodes with 3 DOFs each

\* KE.ravel(): entry 24 * a + b (a, b from 0) is KE[a][b]; lk_H8 returns a
\* fixed symmetric matrix, recorded as a distinct integer per unordered pair.
KERavel(m) ==
  LET a == m \div DofsPerElement
      b == m % DofsPerElement
  IN  IF a <= b THEN DofsPerElement * a + b + 1
      ELSE DofsPerElement * b + a + 1

\* build_edof: the 24 global DOFs (from 1) of element e (from 0, numbered
\* column-major over (y, x, z)): 3 * node + 1 of its first corner plus the
\* fixed offsets of the eight corners
EdofOffsets(ny, nx) ==
  LET lower == <<0, 1, 2, 3 * ny + 3, 3 * ny + 4, 3 * ny + 5,
                 3 * ny, 3 * ny + 1, 3 * ny + 2, 0 - 3, 0 - 2, 0 - 1>>
      layer == 3 * (ny + 1) * (nx + 1)
  IN  lower \o [i \in 1..Len(lower) |-> layer + lower[i]]

EdofMat(ny, nx, nz) ==
  [e \in 0..(ny * nx * nz - 1) |->
     LET y == e % ny
         xx == (e \div ny) % nx
         z == e \div (ny * nx)
         node == (y + 1) + xx * (ny + 1) + z * (ny + 1) * (nx + 1)
     IN  [i \in 1..DofsPerElement |-> 3 * node + 1 + EdofOffsets(ny, nx)[i]]]

\* iK, jK of build_edof: entry k (from 0) belongs to element
\* k div 576, local column a and local row b
IK(edof, k) ==
  edof[k \div (DofsPerElement * DofsPerElement)][(k % DofsPerElement) + 1]
JK(edof, k) ==
  edof[k \div (DofsPerElement * DofsPerElement)]
      [((k \div DofsPerElement) % DofsPerElement) + 1]

\* line 108: pairs = np.vstack(((iK - 1), (jK - 1))).T, rows numbered from 1
Pairs(edof) ==
  [k \in 1..(DofsPerElement * DofsPerElement * Cardinality(DOMAIN edof)) |->
     <<IK(edof, k - 1) - 1, JK(edof, k - 1) - 1>>]

\* the order of np.unique(axis=0) and of a sparse matrix's stored entries:
\* by row, then by column
PairLess(p, q) == p[1] < q[1] \/ (p[1] = q[1] /\ p[2] < q[2])

\* the distinct members of a set of pairs in that order: the coordinates
\* of the square they lie in, row by row, that belong to the set
Extent(S) ==
  LET used == {p[1] : p \in S} \cup {p[2] : p \in S}
  IN  1 + CHOOSE m \in used : \A u \in used : u <= m

SortedPairs(S) ==
  LET n == Extent(S)
      InS(p) == p \in S
  IN  SelectSeq([i \in 1..(n * n) |-> <<(i - 1) \div n, (i - 1) % n>>], InS)

\* line 109: np.unique(pairs, axis=0, return_inverse=True): the sorted
\* distinct rows, and for each row of pairs the index (from 0) of its value
NpUnique(pairs) ==
  LET S == {pairs[k] : k \in DOMAIN pairs}
  IN  [values |-> SortedPairs(S),
       inverse |-> [k \in DOMAIN pairs |->
                      Cardinality({q \in S : PairLess(q, pairs[k])})]]

\* lines 111-114: csr_matrix((zeros, (rows, cols))) stores one entry per
\* distinct coordinate, explicit zeros included, in row-then-column order
CsrCoords(coords) == SortedPairs({coords[k] : k \in DOMAIN coords})

\* line 154: sK_full = np.kron(stiff_vals, KE.ravel()), rows numbered from 1
SKFull(sv) ==
  [k \in 1..(DofsPerElement * DofsPerElement * Cardinality(DOMAIN sv)) |->
     sv[(k - 1) \div (DofsPerElement * DofsPerElement)]
       * KERavel((k - 1) % (DofsPerElement * DofsPerElement))]

\* The sum of the weights w[k] of the rows lo..hi under each key key[k].
\* The weights are positive, so the sums form a bag over the keys.
RECURSIVE SumPerKey(_, _, _, _)
SumPerKey(key, w, lo, hi) ==
  IF lo = hi THEN key[lo] :> w[lo]
  ELSE LET mid == (lo + hi) \div 2
       IN  SumPerKey(key, w, lo, mid) (+) SumPerKey(key, w, mid + 1, hi)

\* the last of the weights w[k] of the rows lo..hi under each key
RECURSIVE LastPerKey(_, _, _, _)
LastPerKey(key, w, lo, hi) ==
  IF lo = hi THEN key[lo] :> w[lo]
  ELSE LET mid == (lo + hi) \div 2
       IN  LastPerKey(key, w, mid + 1, hi) @@ LastPerKey(key, w, lo, mid)

\* line 157: np.bincount(map, weights=w, minlength=n): entry s (stored at
\* s + 1) is the sum of the weights w[k] with map[k] = s
BincountLastWins(map, w, n) ==
  LET sums == LastPerKey(map, w, 1, Len(map))
  IN  [s \in 1..n |-> IF (s - 1) \in DOMAIN sums THEN sums[s - 1] ELSE 0]
Bincount(map, w, n) ==
  LET sums == SumPerKey(map, w, 1, Len(map))
  IN  [s \in 1..n |-> IF (s - 1) \in DOMAIN sums THEN sums[s - 1] ELSE 0]

\* np.zeros(n)
Zeros(n) == [s \in 1..n |-> 0]

MaxStiff == 4    \* largest element stiffness tried, in units of Emin

\* one element, and two elements side by side along each axis
AsmGrids == {<<1, 1, 1>>, <<2, 1, 1>>, <<1, 2, 1>>, <<1, 1, 2>>}

\* top3d entered at line 79 on a grid of AsmGrids, everything that the
\* assembly does not read left as it is before the call
AsmInit ==
  /\ \E g \in AsmGrids : nelx = g[1] /\ nely = g[2] /\ nelz = g[3]
  /\ pc = "asm_setup"
  /\ maxloop = MaxLoop
  /\ volfrac = 1 /\ rmin = Scale + 1 /\ tolx = 0
  /\ obstacle_mask = None
  /\ caller = "top3d" /\ epc = "none"
  /\ create_animation = FALSE /\ benchmark = FALSE /\ logger = "None"
  /\ nele = 0 /\ design_nele = 0 /\ ndof = 0
  /\ arts = Unbound /\ K_template = Unbound /\ U = Unbound
  /\ stiff_vals = Unbound
  /\ built = {}
  /\ x = NoField /\ xPhys = NoField
  /\ loop = 0 /\ change = Scale
  /\ bound = {}
  /\ report = "none"
  /\ exc = NoExc
  /\ result = NoField
  /\ benchmark_tracker = "None"
  /\ history = "None"
  /\ ret = "none"

AsmFrame ==
  UNCHANGED <<nelx, nely, nelz, volfrac, rmin, tolx, maxloop, obstacle_mask,
              design_nele, built, U, x, xPhys, change, bound, report, exc,
              result, execVars>>

\* lines 79-80 and 106-114: nele, ndof, edofMat, the unique pairs with the
\* assembly map, and the template with a zero stored at every unique pair
AsmSetup ==
  /\ pc = "asm_setup"
  /\ nele' = nelx * nely * nelz
  /\ ndof' = 3 * (nelx + 1) * (nely + 1) * (nelz + 1)
  /\ LET edofMat == EdofMat(nely, nelx, nelz)
         unique == NpUnique(Pairs(edofMat))
     IN  /\ arts' = [edofMat |-> edofMat,
                     unique_pairs |-> unique.values,
                     assembly_map |-> unique.inverse,
                     nUnique |-> Len(unique.values)]
         /\ K_template' = [pattern |-> CsrCoords(unique.values),
                           data |-> Zeros(Len(unique.values))]
  /\ pc' = "asm_loop"
  /\ UNCHANGED <<stiff_vals, loop>>
  /\ AsmFrame

\* lines 146-158: one more iteration's stiffnesses, scattered through the
\* assembly map into the template's stored values
AsmAssemble ==
  /\ pc = "asm_loop"
  /\ loop < maxloop
  /\ loop' = loop + 1
  /\ \E sv \in [0..(nele - 1) -> 1..MaxStiff] :
       /\ stiff_vals' = sv
       /\ K_template' =
            StoreKData(K_template,
                       Bincount(arts.assembly_map, SKFull(sv), arts.nUnique))
  /\ UNCHANGED <<pc, nele, ndof, arts>>
  /\ AsmFrame

AsmNext == AsmSetup \/ AsmAssemble

AsmSpec == AsmInit /\ [][AsmNext]_vars

\* ------------------------------------------------------------------ claims
\* the configuration the interface asks for: positive dimensions, volfrac in
\* (0, 1), positive rmin, tolx and maxloop
ValidConfig ==
  /\ nelx > 0 /\ nely > 0 /\ nelz > 0
  /\ volfrac > 0 /\ volfrac < Scale
  /\ rmin > 0 /\ tolx > 0 /\ maxloop > 0

\* the obstacle mask is absent or has the grid's shape
MaskMatches == obstacle_mask.none \/ obstacle_mask.shape = GridShape

\* top3d has been called and has ended
Ended == pc \in {"returned", "raised"}

\* the loop of top3d has been left, or was never reached because of an error
LoopExited == pc \in {"report", "final", "returned", "raised"}

\* x and xPhys exist (line 129 has been executed)
Initialized == pc \in {"test", "body", "oc", "report", "final", "returned"}

\* C1: for maxloop >= 1 and tolx > 0 the loop counter never exceeds maxloop,
\* whatever change values the OC update returns, and a call of top3d leaves
\* its iteration loop.
C1_LoopBounded ==
  /\ []((maxloop >= 1 /\ tolx > 0) => loop <= maxloop)
  /\ ((maxloop >= 1 /\ tolx > 0 /\ pc = "start")
        => <>(LoopExited /\ loop <= maxloop))

\* C1 witness: the cap is what ended the loop (change is still above tolx).
C1_Witness ==
  /\ maxloop >= 1 /\ tolx > 0
  /\ pc = "report" /\ loop = maxloop /\ maxloop = MaxLoop /\ change > tolx

\* C2: the completion message matches the exit reason: a loop left with
\* change <= tolx is reported as converged (info), and the warning is logged
\* only when the cap was hit with change > tolx.
C2_ReportMatchesExit ==
  (ValidConfig /\ MaskMatches /\ pc \in {"final", "returned"})
    => /\ (change <= tolx => report = "info")
       /\ (report = "warning" => (loop >= maxloop /\ change > tolx))

\* C3: with tolx >= 1.0 and maxloop >= 1, top3d executes exactly one
\* iteration and returns the density field.
C3_LargeTolxOneIteration ==
  (ValidConfig /\ MaskMatches /\ tolx >= Scale /\ Ended)
    => (loop = 1 /\ pc = "returned" /\ result = xPhys)

\* C4: with maxloop = 1 and any tolx > 0, top3d executes exactly one iteration
\* and reports the max-iterations warning, never the converged message.
C4_MaxloopOne ==
  (ValidConfig /\ MaskMatches /\ maxloop = 1 /\ Ended)
    => (loop = 1 /\ report = "warning" /\ pc = "returned")

\* C5: from the end of initialization onwards x and xPhys are 0 at every
\* obstacle cell.
C5_ObstacleAlwaysZero ==
  (ValidConfig /\ MaskMatches /\ Initialized)
    => \A c \in Selected(obstacle_mask, Cells) : x[c] = 0 /\ xPhys[c] = 0

\* C6: the array top3d returns is 0 at every cell the obstacle mask selects.
C6_ReturnedZeroInObstacle ==
  pc = "returned"
    => \A c \in Selected(obstacle_mask, DOMAIN result) : result[c] = 0

\* C6 witness: top3d returned a field with material, for a mask with an
\* obstacle cell into which the filter spreads density from the design x.
C6_Witness ==
  /\ pc = "returned"
  /\ \E c \in DOMAIN result : result[c] # 0
  /\ \E c \in Selected(obstacle_mask, DOMAIN result) : Filter(x, rmin)[c] # 0

\* C7: once the completion message is logged (converged or iteration-capped)
\* top3d returns normally, and what it returns is the latest xPhys.
C7_TerminalStatesReturn ==
  (ValidConfig /\ MaskMatches /\ report # "none" /\ Ended)
    => (pc = "returned" /\ exc = NoExc /\ result = xPhys)

\* C8: an invalid configuration is rejected before any setup step: nothing is
\* built, no iteration runs and no density is returned.
C8_InvalidConfigRejected ==
  (~ValidConfig /\ pc # "not_called")
    => (built = {} /\ loop = 0 /\ pc # "returned")

\* C9: a supplied mask whose shape differs from (nely, nelx, nelz) never lets
\* top3d enter the iteration loop or return a density array.
C9_MaskShapeMismatchFatal ==
  (~obstacle_mask.none /\ obstacle_mask.shape # GridShape)
    => (loop = 0 /\ pc \notin {"body", "oc", "returned"})

\* C10: execute_optimization with a logger calls top3d with accepted arguments
\* and completes, returning a history exactly when create_animation is set.
C10_ExecuteCompletes ==
  (caller = "execute_optimization" /\ logger # "None" /\ ValidConfig)
    => /\ epc # "raised"
       /\ (epc = "returned" => ((ret.history # "None") <=> create_animation))

\* an iteration of the loop is in progress: its guard, its body, its update
InIteration == pc \in {"test", "body", "oc"}

\* C11: a step of the iteration loop leaves ndof, the DOF partition, F, KE,
\* edofMat, the assembly map, the filter, the template's sparsity pattern, the
\* obstacle mask and design_nele unchanged; besides the position in the loop
\* and the loop-local temporaries it changes only the matrix values, x, xPhys,
\* U, change, the objective and the loop counter.
C11_IterationFrame ==
  [][InIteration =>
       /\ ndof' = ndof
       /\ arts' = arts
       /\ K_template'.pattern = K_template.pattern
       /\ obstacle_mask' = obstacle_mask
       /\ design_nele' = design_nele
       /\ UNCHANGED <<nelx, nely, nelz, volfrac, rmin, tolx, maxloop, nele,
                      built, report, exc, result, execVars>>]_vars

\* C11 witness: MaxLoop iterations have run on a grid with an obstacle; the
\* matrix values and U were written and the artefacts are still those of setup.
C11_Witness ==
  /\ pc = "test" /\ loop = MaxLoop
  /\ obstacle_mask.true # {}
  /\ K_template.data.kind = "assembled" /\ U.kind = "solved"
  /\ arts = BuildArtefacts
  /\ K_template.pattern = arts.unique_pairs

\* the matrix built from scratch: csr_matrix((vals, (rows, cols))) sums the
\* values given for the same coordinate; the sum stored at each coordinate
FromScratch(coords, vals) == SumPerKey(coords, vals, 1, Len(coords))

\* the value the template stores at each of its coordinates
Stored(template) ==
  [s \in 1..Len(template.pattern) |-> <<template.pattern[s], template.data[s]>>]

Assembled == pc = "asm_loop" /\ loop > 0

\* C12: after every assembly, for every vector of element stiffnesses, the
\* template stores at each global (row, col) the value that a matrix built from
\* scratch from the (iK - 1, jK - 1, value) triples, duplicates summed, holds
\* there, and it stores an entry at exactly the coordinates of that matrix:
\* the k-th deduplicated slot is the k-th stored entry of the template.
C12_ScatterEqualsScratch ==
  Assembled =>
    LET scratch == FromScratch(Pairs(arts.edofMat), SKFull(stiff_vals))
        stored == Stored(K_template)
    IN  /\ {stored[s][1] : s \in DOMAIN stored} = DOMAIN scratch
        /\ Len(stored) = Cardinality(DOMAIN scratch)
        /\ \A s \in DOMAIN stored : stored[s][2] = scratch[stored[s][1]]

\* the template, reused in a later iteration, holds the sums of two elements
\* of different stiffness that share DOFs
C12_Witness ==
  /\ Assembled /\ loop = MaxLoop
  /\ nele = 2
  /\ stiff_vals[0] # stiff_vals[1]
  /\ arts.nUnique < Len(arts.assembly_map)
  /\ \E k \in DOMAIN arts.assembly_map :
       /\ k > DofsPerElement * DofsPerElement
       /\ arts.assembly_map[k] = arts.assembly_map[1]
       /\ K_template.data[arts.assembly_map[k] + 1]
            = SKFull(stiff_vals)[1] + SKFull(stiff_vals)[k]

\* C13: execute_optimization called with logger=None never invokes a method
\* on the None logger: no run without a logger ends with the AttributeError
\* that calling None.debug or None.info raises.
C13_NoneLoggerNeverUsed ==
  (caller = "execute_optimization" /\ logger = "None")
    => ~(epc = "raised" /\ exc.type = "AttributeError")

====
